---- MODULE Spec2Model ----
(***************************************************************************)
(* Study Lounge student tracker (src/study_lounge_app.py): the SQLite      *)
(* store (students, assignments), the request handlers add_student,        *)
(* delete_student, student_page, add_assignment and toggle_complete, and   *)
(* the library computations they rest on (str.strip, datetime.strptime,    *)
(* date.isoformat, SQLite's text comparison, calendar.monthdayscalendar).  *)
(*                                                                         *)
(* Text is a sequence of one-character strings; dates are text in the      *)
(* store, exactly as the due_date column is TEXT.                          *)
(***************************************************************************)
EXTENDS Integers, Sequences, FiniteSets, TLC

VARIABLES
    students,        \* table students: id -> [name, notes]
    student_seq,     \* AUTOINCREMENT counter of students (largest id ever used)
    assignments,     \* table assignments: id -> row
    assignment_seq,  \* AUTOINCREMENT counter of assignments
    resp,            \* the last request served and its HTTP response
    pc,              \* concurrent callers of toggle_complete: position in the handler
    target,          \* concurrent callers: assign_id of the request
    row,             \* concurrent callers: the row fetched by the SELECT
    result,          \* concurrent callers: the JSON response
    orig             \* history: the store when the concurrent callers started

vars == <<students, student_seq, assignments, assignment_seq, resp,
          pc, target, row, result, orig>>

----------------------------------------------------------------------------
(* Bounds *)

MaxStudents == 2       \* add_student is served while student_seq < MaxStudents
MaxAssignments == 2    \* add_assignment inserts while assignment_seq < MaxAssignments
NumCallers == 2        \* concurrent callers of toggle_complete
ConcRows == 2          \* assignment rows in the store the concurrent callers start from

----------------------------------------------------------------------------
(* Text *)

\* The characters used, in ascending code-point order (' ' < '-' < digits < letters).
Alphabet == <<" ", "-", "0", "1", "2", "3", "4", "5", "6", "7", "8", "9", "h", "w">>

Ord(c) == CHOOSE i \in 1..Len(Alphabet) : Alphabet[i] = c

Digit == {"0", "1", "2", "3", "4", "5", "6", "7", "8", "9"}

NonZeroDigit == Digit \ {"0"}

DigitVal(c) == Ord(c) - Ord("0")

DigitChar(v) == Alphabet[Ord("0") + v]

RECURSIVE LStrip(_)
LStrip(s) == IF s # <<>> /\ Head(s) = " " THEN LStrip(Tail(s)) ELSE s

RECURSIVE RStrip(_)
RStrip(s) ==
    IF s # <<>> /\ s[Len(s)] = " " THEN RStrip(SubSeq(s, 1, Len(s) - 1)) ELSE s

\* str.strip(): leading and trailing whitespace removed.
Strip(s) == RStrip(LStrip(s))

\* SQLite's BINARY collation on TEXT: byte-wise comparison, a proper prefix
\* sorts first.
RECURSIVE TextLeq(_, _)
TextLeq(a, b) ==
    IF a = <<>> THEN TRUE
    ELSE IF b = <<>> THEN FALSE
    ELSE IF Ord(Head(a)) < Ord(Head(b)) THEN TRUE
    ELSE IF Ord(Head(a)) > Ord(Head(b)) THEN FALSE
    ELSE TextLeq(Tail(a), Tail(b))

\* x BETWEEN lo AND hi
Between(x, lo, hi) == TextLeq(lo, x) /\ TextLeq(x, hi)

----------------------------------------------------------------------------
(* Calendar *)

\* isleap without the century rule
isleapEveryFourth(year) == year % 4 = 0

\* calendar.isleap
isleap(year) == year % 4 = 0 /\ (year % 100 # 0 \/ year % 400 = 0)

\* calendar.mdays[month] + (month == February and isleap(year))
DaysInMonth(year, month) ==
    IF month = 2 THEN (IF isleap(year) THEN 29 ELSE 28)
    ELSE IF month \in {4, 6, 9, 11} THEN 30 ELSE 31

RECURSIVE DaysBeforeMonth(_, _)
DaysBeforeMonth(year, month) ==
    IF month = 1 THEN 0
    ELSE DaysBeforeMonth(year, month - 1) + DaysInMonth(year, month - 1)

\* date.toordinal(): day 1 is 0001-01-01
ToOrdinal(year, month, day) ==
    LET y == year - 1
    IN  y * 365 + (y \div 4) - (y \div 100) + (y \div 400)
        + DaysBeforeMonth(year, month) + day

\* date.weekday(): Monday = 0 .. Sunday = 6
weekday(year, month, day) == (ToOrdinal(year, month, day) + 6) % 7

\* a date check that bounds the day by 31 whatever the month
ValidDateAnyMonthLength(year, month, day) ==
    year \in 1..9999 /\ month \in 1..12 /\ day \in 1..31

\* date(year, month, day) raises ValueError outside these ranges
ValidDate(year, month, day) ==
    /\ year \in 1..9999
    /\ month \in 1..12
    /\ day \in 1..DaysInMonth(year, month)

\* calendar.monthrange(year, month)[1]
LastDay(year, month) == DaysInMonth(year, month)

\* Calendar.itermonthdays: zeros before day 1, the days, zeros to fill the week.
itermonthdays(year, month, firstweekday) ==
    LET day1 == weekday(year, month, 1)
        ndays == DaysInMonth(year, month)
        days_before == (day1 - firstweekday) % 7
        days_after == (firstweekday - day1 - ndays) % 7
    IN  [i \in 1..days_before |-> 0]
        \o [i \in 1..ndays |-> i]
        \o [i \in 1..days_after |-> 0]

\* Calendar(firstweekday=0).monthdayscalendar: the days cut in weeks of 7.
monthdayscalendar(year, month) ==
    LET days == itermonthdays(year, month, 0)
        nweeks == (Len(days) + 6) \div 7
    IN  [w \in 1..nweeks |->
            SubSeq(days, 7 * (w - 1) + 1,
                   IF 7 * w < Len(days) THEN 7 * w ELSE Len(days))]

\* "%04d" % v
Pad4(v) ==
    <<DigitChar(v \div 1000), DigitChar((v \div 100) % 10),
      DigitChar((v \div 10) % 10), DigitChar(v % 10)>>

\* "%02d" % v
Pad2(v) == <<DigitChar(v \div 10), DigitChar(v % 10)>>

\* date(year, month, day).isoformat()
isoformat(year, month, day) ==
    Pad4(year) \o <<"-">> \o Pad2(month) \o <<"-">> \o Pad2(day)

----------------------------------------------------------------------------
(* datetime.strptime(due_date, '%Y-%m-%d') *)

\* %Y is \d\d\d\d
YearRe(t) == Len(t) = 4 /\ \A i \in 1..4 : t[i] \in Digit

\* %m is 1[0-2]|0[1-9]|[1-9]
MonthRe(t) ==
    \/ Len(t) = 2 /\ t[1] = "1" /\ t[2] \in {"0", "1", "2"}
    \/ Len(t) = 2 /\ t[1] = "0" /\ t[2] \in NonZeroDigit
    \/ Len(t) = 1 /\ t[1] \in NonZeroDigit

\* %d is 3[0-1]|[1-2]\d|0[1-9]|[1-9]| [1-9]
DayRe(t) ==
    \/ Len(t) = 2 /\ t[1] = "3" /\ t[2] \in {"0", "1"}
    \/ Len(t) = 2 /\ t[1] \in {"1", "2"} /\ t[2] \in Digit
    \/ Len(t) = 2 /\ t[1] = "0" /\ t[2] \in NonZeroDigit
    \/ Len(t) = 1 /\ t[1] \in NonZeroDigit
    \/ Len(t) = 2 /\ t[1] = " " /\ t[2] \in NonZeroDigit

\* int(t) of a matched group (a leading blank is skipped)
RECURSIVE IntOf(_)
IntOf(t) ==
    IF t = <<>> THEN 0
    ELSE IF t[Len(t)] = " " THEN 0
    ELSE IntOf(SubSeq(t, 1, Len(t) - 1)) * 10 + DigitVal(t[Len(t)])

\* The ways the whole text splits as Y-M-D with the month of lm and the day
\* of ld characters.
DateSplits(s) ==
    {<<lm, ld>> \in (1..2) \X (1..2) :
        /\ Len(s) = 6 + lm + ld
        /\ YearRe(SubSeq(s, 1, 4))
        /\ s[5] = "-"
        /\ MonthRe(SubSeq(s, 6, 5 + lm))
        /\ s[6 + lm] = "-"
        /\ DayRe(SubSeq(s, 7 + lm, 6 + lm + ld))}

\* The parsed date, or ok = FALSE where strptime raises ValueError (the text
\* does not match the format, or the date does not exist).
strptime(s) ==
    IF DateSplits(s) = {} THEN [ok |-> FALSE, year |-> 0, month |-> 0, day |-> 0]
    ELSE LET sp == CHOOSE x \in DateSplits(s) : TRUE
             y == IntOf(SubSeq(s, 1, 4))
             m == IntOf(SubSeq(s, 6, 5 + sp[1]))
             d == IntOf(SubSeq(s, 7 + sp[1], 6 + sp[1] + sp[2]))
         IN  [ok |-> ValidDate(y, m, d), year |-> y, month |-> m, day |-> d]

----------------------------------------------------------------------------
(* The store *)

\* request.args / request.form values the handlers are driven with
Callers == 1..NumCallers

StudentIds == 1..MaxStudents

AssignIds == 1..MaxAssignments

\* a row of assignments as inserted by add_assignment; completed takes its
\* column default 0
NewRow(student_id, title, description, due_date, is_test) ==
    [student_id |-> student_id, title |-> title, description |-> description,
     due_date |-> due_date, is_test |-> is_test, completed |-> 0]

\* INSERT INTO students (name, notes) VALUES (?, ?)
InsertStudent(st, id, name, notes) ==
    [s \in DOMAIN st \cup {id} |->
        IF s = id THEN [name |-> name, notes |-> notes] ELSE st[s]]

\* INSERT INTO assignments (student_id, title, description, due_date, is_test)
\* No foreign-key check is made: the connection never sets PRAGMA foreign_keys.
InsertAssignment(asg, id, r) ==
    [a \in DOMAIN asg \cup {id} |-> IF a = id THEN r ELSE asg[a]]

\* delete_student without its first DELETE, the rows left to ON DELETE CASCADE
DeleteAssignmentsOfNone(asg, student_id) == asg

\* DELETE FROM assignments WHERE student_id = ?
DeleteAssignmentsOf(asg, student_id) ==
    [a \in {x \in DOMAIN asg : asg[x].student_id # student_id} |-> asg[a]]

\* DELETE FROM students WHERE id = ?
DeleteStudentRow(st, student_id) == [s \in DOMAIN st \ {student_id} |-> st[s]]

\* a SELECT that answers "not completed" for a row that is not there
SelectCompletedOrDefault(asg, assign_id) ==
    IF assign_id \in DOMAIN asg THEN <<asg[assign_id].completed>> ELSE <<0>>

\* SELECT completed FROM assignments WHERE id = ?, fetchone(): the row, or
\* nothing
SelectCompleted(asg, assign_id) ==
    IF assign_id \in DOMAIN asg THEN <<asg[assign_id].completed>> ELSE <<>>

\* a toggle that only ever sets the flag
NewCompletedAlwaysSet(completed) == 1

\* new = 0 if row['completed'] else 1
NewCompleted(completed) == IF completed # 0 THEN 0 ELSE 1

\* the UPDATE without its WHERE clause
UpdateCompletedEveryRow(asg, assign_id, new) ==
    [a \in DOMAIN asg |-> [asg[a] EXCEPT !.completed = new]]

\* UPDATE assignments SET completed = ? WHERE id = ?
UpdateCompleted(asg, assign_id, new) ==
    [a \in DOMAIN asg |->
        IF a = assign_id THEN [asg[a] EXCEPT !.completed = new] ELSE asg[a]]

\* dict(r) of a fetched row
RowDict(asg, a) ==
    [id |-> a, student_id |-> asg[a].student_id, title |-> asg[a].title,
     description |-> asg[a].description, due_date |-> asg[a].due_date,
     is_test |-> asg[a].is_test, completed |-> asg[a].completed]

\* SELECT * FROM assignments WHERE student_id = ? AND due_date BETWEEN ? AND ?
SelectMonth(asg, student_id, start_iso, end_iso) ==
    {a \in DOMAIN asg :
        /\ asg[a].student_id = student_id
        /\ Between(asg[a].due_date, start_iso, end_iso)}

\* ... ORDER BY due_date: every listing of the selected rows in ascending
\* due_date; SQL leaves the order of rows with equal due_date open.
OrderedByDueDate(asg, ids) ==
    {q \in [1..Cardinality(ids) -> ids] :
        /\ \A i, j \in DOMAIN q : i # j => q[i] # q[j]
        /\ \A i, j \in DOMAIN q :
              i < j => TextLeq(asg[q[i]].due_date, asg[q[j]].due_date)}

\* assignments_by_date.setdefault(a['due_date'], []).append(a)
GroupByDate(rows) ==
    [d \in {rows[i].due_date : i \in DOMAIN rows} |->
        SelectSeq(rows, LAMBDA r : r.due_date = d)]

\* int(text) of a slice of the due date: a ValueError is -1
ParseInt(t) ==
    IF t # <<>> /\ \A i \in DOMAIN t : t[i] \in Digit THEN IntOf(t) ELSE -1

\* The assignments table after toggle_complete(assign_id) has run on it.
StoreAfterToggle(asg, assign_id) ==
    LET fetched == SelectCompleted(asg, assign_id)
    IN  IF fetched = <<>> THEN asg
        ELSE UpdateCompleted(asg, assign_id, NewCompleted(fetched[1]))

\* What toggle_complete(assign_id) answers on it: 404, or the new state.
ToggleResponse(asg, assign_id) ==
    LET fetched == SelectCompleted(asg, assign_id)
    IN  IF fetched = <<>>
        THEN [op |-> "toggle_complete", assign_id |-> assign_id,
              status |-> 404, ok |-> FALSE]
        ELSE [op |-> "toggle_complete", assign_id |-> assign_id,
              status |-> 200, ok |-> TRUE,
              completed |-> (NewCompleted(fetched[1]) # 0)]

----------------------------------------------------------------------------
(* Initial state: init_db() on an empty database *)

NoResponse == [op |-> "none", status |-> 0]

Init ==
    /\ students = <<>>
    /\ student_seq = 0
    /\ assignments = <<>>
    /\ assignment_seq = 0
    /\ resp = NoResponse
    /\ pc = [c \in Callers |-> "idle"]
    /\ target = [c \in Callers |-> 0]
    /\ row = [c \in Callers |-> <<>>]
    /\ result = [c \in Callers |-> NoResponse]
    /\ orig = [students |-> <<>>, assignments |-> <<>>]

callerVars == <<pc, target, row, result, orig>>

----------------------------------------------------------------------------
(* Request handlers, one request at a time *)

\* POST /add_student
add_student(name_form, notes_form) ==
    LET name == Strip(name_form)
        notes == Strip(notes_form)
    IN  /\ IF name = <<>>
           THEN UNCHANGED <<students, student_seq>>
           ELSE /\ student_seq < MaxStudents
                /\ student_seq' = student_seq + 1
                /\ students' = InsertStudent(students, student_seq + 1, name, notes)
        /\ resp' = [op |-> "add_student", status |-> 302, location |-> "index"]
        /\ UNCHANGED <<assignments, assignment_seq, callerVars>>

\* POST /delete_student/<student_id>
delete_student(student_id) ==
    /\ assignments' = DeleteAssignmentsOf(assignments, student_id)
    /\ students' = DeleteStudentRow(students, student_id)
    /\ resp' = [op |-> "delete_student", student_id |-> student_id,
                status |-> 302, location |-> "index"]
    /\ UNCHANGED <<student_seq, assignment_seq, callerVars>>

\* What GET /student/<student_id>?month=&year= answers on a store, given the
\* order the rows were fetched in.
PageResponse(st, asg, student_id, year, month, q) ==
    IF student_id \notin DOMAIN st
    THEN [op |-> "student_page", student_id |-> student_id, status |-> 302,
          location |-> "index"]
    ELSE IF ~ValidDate(year, month, 1)
    THEN [op |-> "student_page", student_id |-> student_id, status |-> 500]
    ELSE LET rows == [i \in DOMAIN q |-> RowDict(asg, q[i])]
         IN  [op |-> "student_page", student_id |-> student_id, status |-> 200,
              year |-> year, month |-> month,
              assignments |-> rows,
              assignments_by_date |-> GroupByDate(rows),
              month_matrix |-> monthdayscalendar(year, month)]

\* The orders the month query of student_page can fetch its rows in.
PageFetches(st, asg, student_id, year, month) ==
    IF student_id \in DOMAIN st /\ ValidDate(year, month, 1)
    THEN OrderedByDueDate(asg,
            SelectMonth(asg, student_id, isoformat(year, month, 1),
                        isoformat(year, month, LastDay(year, month))))
    ELSE {<<>>}

\* GET /student/<student_id>
student_page(student_id, year, month) ==
    /\ \E q \in PageFetches(students, assignments, student_id, year, month) :
          resp' = PageResponse(students, assignments, student_id, year, month, q)
    /\ UNCHANGED <<students, student_seq, assignments, assignment_seq,
                   callerVars>>

\* POST /student/<student_id>/add_assignment
add_assignment(student_id, title_form, due_date_form, description_form, is_test_form) ==
    LET title == Strip(title_form)
        due_date == Strip(due_date_form)
        description == Strip(description_form)
        is_test == IF is_test_form = "1" THEN 1 ELSE 0
        back == [op |-> "add_assignment", student_id |-> student_id,
                 status |-> 302, location |-> "student_page", args |-> <<>>]
    IN  IF title = <<>> \/ due_date = <<>> \/ ~strptime(due_date).ok
        THEN /\ resp' = back
             /\ UNCHANGED <<students, student_seq, assignments, assignment_seq,
                            callerVars>>
        ELSE /\ assignment_seq < MaxAssignments
             /\ assignment_seq' = assignment_seq + 1
             /\ assignments' =
                    InsertAssignment(assignments, assignment_seq + 1,
                        NewRow(student_id, title, description, due_date, is_test))
             /\ LET month == ParseInt(SubSeq(due_date, 6, 7))
                    year == ParseInt(SubSeq(due_date, 1, 4))
                IN  resp' = IF month < 0 \/ year < 0
                            THEN [op |-> "add_assignment", student_id |-> student_id,
                                  status |-> 500]
                            ELSE [back EXCEPT !.args = <<month, year>>]
             /\ UNCHANGED <<students, student_seq, callerVars>>

\* POST /toggle_complete/<assign_id>
toggle_complete(assign_id) ==
    /\ assignments' = StoreAfterToggle(assignments, assign_id)
    /\ resp' = ToggleResponse(assignments, assign_id)
    /\ UNCHANGED <<students, student_seq, assignment_seq, callerVars>>

----------------------------------------------------------------------------
(* toggle_complete served to concurrent callers, each on its own connection: *)
(* the SELECT and the UPDATE with its commit are separate steps.             *)

\* db.execute('SELECT completed ...'); row = cur.fetchone(); 404 if no row
toggle_select(c, assign_id) ==
    /\ pc[c] = "idle"
    /\ target' = [target EXCEPT ![c] = assign_id]
    /\ row' = [row EXCEPT ![c] = SelectCompleted(assignments, assign_id)]
    /\ IF row'[c] = <<>>
       THEN /\ result' = [result EXCEPT ![c] =
                    [op |-> "toggle_complete", assign_id |-> assign_id,
                     status |-> 404, ok |-> FALSE]]
            /\ pc' = [pc EXCEPT ![c] = "done"]
       ELSE /\ pc' = [pc EXCEPT ![c] = "update"]
            /\ UNCHANGED result
    /\ UNCHANGED <<students, student_seq, assignments, assignment_seq, resp,
                   orig>>

\* new = ...; db.execute('UPDATE ...', (new, assign_id)); db.commit(); jsonify
toggle_update(c) ==
    /\ pc[c] = "update"
    /\ LET new == NewCompleted(row[c][1])
       IN  /\ assignments' = UpdateCompleted(assignments, target[c], new)
           /\ result' = [result EXCEPT ![c] =
                    [op |-> "toggle_complete", assign_id |-> target[c],
                     status |-> 200, ok |-> TRUE, completed |-> (new # 0)]]
    /\ pc' = [pc EXCEPT ![c] = "done"]
    /\ UNCHANGED <<students, student_seq, assignment_seq, resp, target, row,
                   orig>>

----------------------------------------------------------------------------
(* Request inputs *)

Feb29 == <<"2", "0", "2", "4", "-", "0", "2", "-", "2", "9">>

NameForms == {<<>>, <<" ">>, <<" ", "w", " ">>}

NotesForms == {<<>>}

TitleForms == {<<>>, <<" ">>, <<"h", "w", " ">>}

DescriptionForms == {<<>>}

\* lifecycle runs: no date, a date that exists, a day and a month that do not
DueDateForms ==
    {<<>>, Feb29,
     <<"2", "0", "2", "3", "-", "0", "2", "-", "2", "9">>,
     <<"2", "0", "2", "4", "-", "1", "3", "-", "0", "1">>}

IsTestForms == {"1"}

\* creation runs: the same, and a day past the end of a leap February
AddDueDateForms ==
    DueDateForms \cup {<<"2", "0", "2", "4", "-", "0", "2", "-", "3", "0">>}

PageQueries == {<<2024, 2>>}

\* month runs: the days around and inside February 2024, in ISO form and in
\* the other forms strptime takes, and texts it refuses
MonthDueDateForms ==
    {<<"2", "0", "2", "4", "-", "0", "1", "-", "3", "1">>,
     <<" ", "2", "0", "2", "4", "-", "0", "2", "-", "0", "1", " ">>,
     Feb29,
     <<"2", "0", "2", "4", "-", "0", "3", "-", "0", "1">>,
     <<"2", "0", "2", "4", "-", "0", "2", "-", "5">>,
     <<"2", "0", "2", "4", "-", "2", "-", "0", "5">>,
     <<"2", "0", "2", "4", "-", "1", "3", "-", "0", "1">>,
     <<"2", "0", "2", "4", "-", "0", "2", "-", "3", "0">>,
     <<"2", "4", "-", "0", "2", "-", "0", "1">>,
     <<"h", "w">>,
     <<" ">>}

MonthQueries == {<<2024, 1>>, <<2024, 2>>, <<2024, 3>>}

\* the checkbox of the form ticked, and not
MonthIsTestForms == {"0", "1"}

\* the years around today, and the century years of the leap-year rule
GridYears == (2016..2032) \cup {1900, 2000, 2100}

GridMonths == 0..13

----------------------------------------------------------------------------
(* Specifications *)

\* every handler, one request at a time
Next ==
    \/ \E n \in NameForms, notes \in NotesForms : add_student(n, notes)
    \/ \E s \in StudentIds : delete_student(s)
    \/ \E s \in StudentIds, ym \in PageQueries : student_page(s, ym[1], ym[2])
    \/ \E s \in StudentIds, t \in TitleForms, d \in DueDateForms,
          ds \in DescriptionForms, it \in IsTestForms :
          add_assignment(s, t, d, ds, it)
    \/ \E a \in AssignIds : toggle_complete(a)

Spec == Init /\ [][Next]_vars

\* creating assignments with due dates of every form and listing the months
NextMonth ==
    \/ \E n \in NameForms, notes \in NotesForms : add_student(n, notes)
    \/ \E s \in StudentIds, t \in TitleForms, d \in MonthDueDateForms,
          ds \in DescriptionForms, it \in MonthIsTestForms :
          add_assignment(s, t, d, ds, it)
    \/ \E s \in StudentIds, ym \in MonthQueries : student_page(s, ym[1], ym[2])

SpecMonth == Init /\ [][NextMonth]_vars

\* creating students and assignments from every form, and toggling
NextAdd ==
    \/ \E n \in NameForms, notes \in NotesForms : add_student(n, notes)
    \/ \E s \in StudentIds, t \in TitleForms, d \in AddDueDateForms,
          ds \in DescriptionForms, it \in IsTestForms :
          add_assignment(s, t, d, ds, it)
    \/ \E a \in AssignIds : toggle_complete(a)

SpecAdd == Init /\ [][NextAdd]_vars

\* the month page of a student over the years
NextGrid ==
    \/ \E n \in NameForms, notes \in NotesForms : add_student(n, notes)
    \/ \E s \in StudentIds, y \in GridYears, m \in GridMonths : student_page(s, y, m)

SpecGrid == Init /\ [][NextGrid]_vars

\* A store the handlers can have built: the students, and ConcRows assignments
\* of student 1, each toggled or not.
ConcStores ==
    LET st == [s \in StudentIds |-> [name |-> <<"w">>, notes |-> <<>>]]
        fresh == [a \in 1..ConcRows |->
                    NewRow(1, <<"h", "w">>, <<>>, Feb29, a % 2)]
    IN  {[students |-> st,
          assignments |-> [a \in 1..ConcRows |->
                              [fresh[a] EXCEPT !.completed = done[a]]]] :
            done \in [1..ConcRows -> {0, 1}]}

InitConc ==
    /\ orig \in ConcStores
    /\ students = orig.students
    /\ student_seq = MaxStudents
    /\ assignments = orig.assignments
    /\ assignment_seq = ConcRows
    /\ resp = NoResponse
    /\ pc = [c \in Callers |-> "idle"]
    /\ target = [c \in Callers |-> 0]
    /\ row = [c \in Callers |-> <<>>]
    /\ result = [c \in Callers |-> NoResponse]

\* the callers' requests, on assignments that exist and on one id past them
NextConc ==
    \/ \E c \in Callers, a \in 1..(ConcRows + 1) : toggle_select(c, a)
    \/ \E c \in Callers : toggle_update(c)

SpecConc == InitConc /\ [][NextConc]_vars

----------------------------------------------------------------------------
(* Properties *)

\* the truth value of a stored completed flag
Truthy(completed) == completed # 0

\* C1: a step that answers toggle_complete(a) for an existing assignment
\* stores and returns the negation of the completed value a had before it; a
\* second call right after the first leaves a with the negation of what the
\* first returned, which is the value a had at first; and in every state two
\* calls on an existing assignment, one after the other, give back the store.
C1_ToggleNegatesAndTwiceRestores ==
    /\ [][(resp'.op = "toggle_complete" /\ resp'.ok) =>
            LET a == resp'.assign_id
            IN  /\ a \in DOMAIN assignments /\ a \in DOMAIN assignments'
                /\ Truthy(assignments'[a].completed) = ~Truthy(assignments[a].completed)
                /\ resp'.completed = ~Truthy(assignments[a].completed)
                /\ (resp.op = "toggle_complete" /\ resp.ok /\ resp.assign_id = a)
                      => Truthy(assignments'[a].completed) = ~resp.completed]_vars
    /\ [](\A a \in DOMAIN assignments :
            StoreAfterToggle(StoreAfterToggle(assignments, a), a) = assignments)

\* an assignment was toggled and toggled back: the last answer is "not
\* completed", on a row that is created not completed
C1_Witness ==
    /\ resp.op = "toggle_complete"
    /\ resp.ok
    /\ resp.completed = FALSE
    /\ assignments[resp.assign_id].completed = 0

\* C2: when two callers have both finished toggle_complete on the same existing
\* assignment, its completed value is the original one and the two calls
\* returned opposite values.
C2_NoLostUpdate ==
    \A c1, c2 \in Callers :
        (/\ c1 # c2
         /\ pc[c1] = "done" /\ pc[c2] = "done"
         /\ target[c1] = target[c2]
         /\ target[c1] \in DOMAIN orig.assignments
         /\ \A c \in Callers \ {c1, c2} : target[c] # target[c1])
        => /\ assignments[target[c1]].completed
                = orig.assignments[target[c1]].completed
           /\ result[c1].completed # result[c2].completed

\* C3: every step that creates an assignment row creates it for a student that
\* exists.
C3_AssignmentOwnerExists ==
    [][\A a \in DOMAIN assignments' \ DOMAIN assignments :
          assignments'[a].student_id \in DOMAIN students]_vars

\* the day count of a month
ClaimDays(y, m) ==
    IF m = 2
    THEN (IF y % 400 = 0 \/ (y % 4 = 0 /\ y % 100 # 0) THEN 29 ELSE 28)
    ELSE IF m \in {1, 3, 5, 7, 8, 10, 12} THEN 31 ELSE 30

\* a month or day number written with two digits, or with one if it has one
Writings(v) == IF v < 10 THEN {Pad2(v), <<DigitChar(v)>>} ELSE {Pad2(v)}

\* the text names a day of the calendar, written with or without leading zeros
NamesCalendarDate(text) ==
    \E y \in {2023, 2024}, m \in 1..12 :
        \E d \in 1..ClaimDays(y, m), ms \in Writings(m) :
            \E dd \in Writings(d) : text = Pad4(y) \o <<"-">> \o ms \o <<"-">> \o dd

\* the title forms that are empty after trimming
BlankTitleForms == {t \in TitleForms : Strip(t) = <<>>}

\* the due date forms that, trimmed, name no calendar date
NoDateForms == {d \in AddDueDateForms : ~NamesCalendarDate(Strip(d))}

\* C4: add_assignment with a title that is empty after trimming, or with a due
\* date text that names no calendar date, answers the plain redirect and
\* leaves the assignments table as it was.
C4_InvalidAddChangesNothing ==
    [][resp'.op = "add_assignment" =>
          \A t \in TitleForms, d \in AddDueDateForms, ds \in DescriptionForms,
             it \in IsTestForms :
             (/\ t \in BlankTitleForms \/ d \in NoDateForms
              /\ add_assignment(resp'.student_id, t, d, ds, it))
             => /\ assignments' = assignments
                /\ assignment_seq' = assignment_seq
                /\ resp'.status = 302
                /\ resp'.args = <<>>]_vars

\* a refused add_assignment has been answered while rows exist
C4_Witness ==
    /\ resp.op = "add_assignment"
    /\ resp.status = 302
    /\ resp.args = <<>>
    /\ assignments # <<>>
    /\ assignment_seq < MaxAssignments

\* C5: right after delete_student(s) the students table has no row s, the
\* assignments table has no row of s, and the page of s answers not found
\* (the redirect to the index) with no assignments.
C5_DeleteCascades ==
    resp.op = "delete_student" =>
        LET s == resp.student_id
        IN  /\ s \notin DOMAIN students
            /\ \A a \in DOMAIN assignments : assignments[a].student_id # s
            /\ \A ym \in PageQueries :
                 \A q \in PageFetches(students, assignments, s, ym[1], ym[2]) :
                    LET page == PageResponse(students, assignments, s, ym[1], ym[2], q)
                    IN  /\ page.status = 302
                        /\ page.location = "index"
                        /\ q = <<>>

\* a student that was created is deleted, and rows of assignments went too
C5_Witness ==
    /\ resp.op = "delete_student"
    /\ resp.student_id <= student_seq
    /\ Cardinality(DOMAIN assignments) < assignment_seq
    /\ assignments # <<>>

\* the day the stored due date names, as add_assignment parsed it
DueDay(r) == strptime(r.due_date)

\* add_assignment answered the creation of the row with its redirect
Accepted(r) == ParseInt(SubSeq(r.due_date, 6, 7)) >= 0

\* C6: the month page of an existing student lists exactly the student's
\* accepted assignments whose due date is a day of that month, in ascending
\* order of due date.
C6_MonthListsExactlyTheMonth ==
    (resp.op = "student_page" /\ resp.status = 200) =>
        LET listed == {resp.assignments[i].id : i \in DOMAIN resp.assignments}
            due == {a \in DOMAIN assignments :
                      /\ assignments[a].student_id = resp.student_id
                      /\ Accepted(assignments[a])
                      /\ DueDay(assignments[a]).year = resp.year
                      /\ DueDay(assignments[a]).month = resp.month}
        IN  /\ {a \in listed : Accepted(assignments[a])} = due
            /\ \A i, j \in DOMAIN resp.assignments :
                  i < j => DueDay(resp.assignments[i]).day
                              <= DueDay(resp.assignments[j]).day

\* the weekday of a date, Monday = 0, by Sakamoto's method
ClaimWeekday(y, m, d) ==
    LET t == <<0, 3, 2, 5, 0, 3, 5, 1, 4, 6, 2, 4>>
        yy == IF m < 3 THEN y - 1 ELSE y
        sunday0 == (yy + (yy \div 4) - (yy \div 100) + (yy \div 400) + t[m] + d) % 7
    IN  (sunday0 + 6) % 7

RECURSIVE Flatten(_)
Flatten(weeks) == IF weeks = <<>> THEN <<>> ELSE Head(weeks) \o Flatten(Tail(weeks))

\* C7: the month matrix of a page has 4, 5 or 6 weeks of 7 cells; its cells
\* outside the month are 0; day 1 sits at the column of the weekday of the
\* first day of the month; the days run 1, 2, ... up to the day count of the
\* month in row-major order, with no 0 between them.
C7_MonthMatrixShape ==
    (resp.op = "student_page" /\ resp.status = 200) =>
        LET weeks == resp.month_matrix
            cells == Flatten(weeks)
            first == ClaimWeekday(resp.year, resp.month, 1) + 1
            n == ClaimDays(resp.year, resp.month)
        IN  /\ Len(weeks) \in {4, 5, 6}
            /\ \A w \in DOMAIN weeks : Len(weeks[w]) = 7
            /\ \A i \in DOMAIN cells :
                  cells[i] = IF i >= first /\ i < first + n THEN i - first + 1 ELSE 0
            /\ first + n - 1 <= Len(cells)

\* the page of February 2100 (28 days in a year divisible by 4) was answered
C7_Witness ==
    /\ resp.op = "student_page"
    /\ resp.status = 200
    /\ resp.year = 2100
    /\ resp.month = 2

\* C8: a step that answers toggle_complete for an id that matches no row
\* answers 404 with ok = false and changes nothing in the store.
C8_ToggleMissingChangesNothing ==
    [][(resp'.op = "toggle_complete" /\ resp'.assign_id \notin DOMAIN assignments)
        => /\ resp'.status = 404
           /\ resp'.ok = FALSE
           /\ UNCHANGED <<students, student_seq, assignments, assignment_seq>>]_vars

\* toggle_complete was answered 404 while rows exist
C8_Witness ==
    /\ resp.op = "toggle_complete"
    /\ resp.status = 404
    /\ assignments # <<>>

\* how many callers asked for assignment a
Asked(a) == Cardinality({c \in Callers : target[c] = a})

\* C9: concurrent toggles never change a student row, the set of assignment
\* rows, or any field of a row but completed; and once all callers are done,
\* an assignment asked for by exactly one caller is flipped and one asked for
\* by none is as it was, whatever the interleaving: the state that running
\* the calls one after the other gives.
C9_ToggleFrame ==
    /\ students = orig.students
    /\ DOMAIN assignments = DOMAIN orig.assignments
    /\ \A a \in DOMAIN assignments :
          /\ [assignments[a] EXCEPT !.completed = 0]
                = [orig.assignments[a] EXCEPT !.completed = 0]
          /\ {c \in Callers : target[c] = a /\ pc[c] = "done"} = {}
                => assignments[a] = orig.assignments[a]
    /\ (\A c \in Callers : pc[c] = "done") =>
          \A a \in DOMAIN assignments :
              /\ Asked(a) = 0 =>
                    assignments[a].completed = orig.assignments[a].completed
              /\ Asked(a) = 1 =>
                    Truthy(assignments[a].completed)
                        = ~Truthy(orig.assignments[a].completed)

\* two callers have finished toggles of two different existing assignments
C9_Witness ==
    \E c1, c2 \in Callers :
        /\ pc[c1] = "done" /\ pc[c2] = "done"
        /\ target[c1] # target[c2]
        /\ result[c1].ok /\ result[c2].ok
        /\ \A c \in Callers : pc[c] = "done"

\* C10: every step that creates a student creates one that owns no assignment.
C10_NewStudentOwnsNothing ==
    [][\A s \in DOMAIN students' \ DOMAIN students :
          \A a \in DOMAIN assignments' : assignments'[a].student_id # s]_vars

====
